---- MODULE Spec2Model ----
(***************************************************************************)
(* Model of ppafm-generate-elff (src/ppafm/cli/generateElFF.py, main()).   *)
(*                                                                         *)
(* main() is a straight-line batch program.  Its state is the parsed       *)
(* command line (args), the global parameter dictionary (PPU.params), the  *)
(* local variables of main() (loc), the program counter (pc, named after   *)
(* the source line that runs next), and the observable effects: the files  *)
(* read (loaded) and the files written (outputs).                          *)
(*                                                                         *)
(* Units: heights (lvec, z0) are integers counting 0.1 Angstrom, reference *)
(* fields (Vref) are integers counting 0.1 V/Angstrom, so that the offset  *)
(* 0.1 of line 146 and the fitted field -0.1 of line 122 are integers.     *)
(* Quotients are kept as exact fractions [num, den].                       *)
(*                                                                         *)
(* Grids are kept as linear forms in the contents of the files they are    *)
(* computed from: [a, b, c] stands for  a*F0 + b*Fb + c*Core  where F0 is  *)
(* the zero-bias file, Fb the file under bias, Core the core density that  *)
(* subtractCoreDensities removes.  Element-wise numpy arithmetic is linear,*)
(* so the form determines the grid for every content of the files.         *)
(***************************************************************************)
EXTENDS Integers, Sequences, FiniteSets, TLC

\* ---------------------------------------------------------------- bounds
MaxDim  == 3   \* a grid has 1..MaxDim slices along its first axis
MaxOrg  == 1   \* lvec[0,2] ranges over -MaxOrg..MaxOrg
MaxTop  == 3   \* lvec[3,2] ranges over 0..MaxTop
MaxZ0   == 2   \* args.z0 ranges over -MaxZ0..MaxZ0
MaxVref == 2   \* args.Vref ranges over -MaxVref..MaxVref, or is unset

\* ------------------------------------------------------ program constants
Eps     == 1   \* the 0.1 added to zpos[i] (lines 146, 147), in 0.1 Angstrom
VrefFit == -1  \* Vref_t = -0.1 of the analytic tip models (line 122)

\* ------------------------------------------------------------ python values
None    == <<>>
Some(x) == <<x>>
IsNone(o) == o = None
Val(o)  == o[1]

Path(name, ext) == [name |-> name, ext |-> ext]
NoPath == Path("None", "")

\* str.lower() on the file extensions the model uses
Lower(s) ==
    CASE s = ".XSF"  -> ".xsf"
      [] s = ".CUBE" -> ".cube"
      [] OTHER       -> s

\* path.lower().endswith(ext)
EndsWith(p, ext) == Lower(p.ext) = ext

\* ------------------------------------------------------------------ grids
Grid(a, b, c) == [a |-> a, b |-> b, c |-> c]
File0 == Grid(1, 0, 0)     \* contents of a zero-bias file (input, tip_dens)
FileB == Grid(0, 1, 0)     \* contents of a file under bias (KPFM_sample, KPFM_tip)

\* numpy: -g and g *= -1
Neg(g) == Grid(-g.a, -g.b, -g.c)
\* numpy: g - h
Sub(g, h) == Grid(g.a - h.a, g.b - h.b, g.c - h.c)
\* PPH.subtractCoreDensities(rho_tip, ...): removes the core density in place
SubtractCoreDensities(g) == Grid(g.a, g.b, g.c - 1)

\* a tip kernel: PPU.params['tip'] holds a multipole descriptor or a grid
Multipole(pz) == [kind |-> "multipole", pz |-> pz, g |-> Grid(0, 0, 0)]
GridTip(g)    == [kind |-> "grid", pz |-> "", g |-> g]
Unbound       == [kind |-> "unbound", pz |-> "", g |-> Grid(0, 0, 0)]

\* ---------------------------------------------------------------- lattice
Lattice(src, org, top, n) == [src |-> src, org |-> org, top |-> top, n |-> n]
NoLattice == Lattice("unbound", 0, 0, 0)
DefaultGeom == [org |-> 0, top |-> MaxTop, n |-> MaxDim]

Geoms == [org : (-MaxOrg)..MaxOrg, top : 0..MaxTop, n : 1..MaxDim]

VARIABLES args, params, files, pc, err, loc, loaded, outputs, log

vars == <<args, params, files, pc, err, loc, loaded, outputs, log>>

\* The charge-rings GUI (src/tests/ChargeRings/CombinedChargeRingsGUI.py,
\* ApplicationWindow) is a second program: the values of its parameter
\* widgets, the Auto-update checkbox, the simulation arrays, the parameters
\* the last completed run_simulation read, the JSON file of save_parameters
\* with the values it was written from, and the last event handled with the
\* number of run_simulation calls it made.
VARIABLES param_widgets, cbAutoUpdate, spos, Esite, rots, lastRun,
          jsonFile, savedValues, handler

guiVars == <<param_widgets, cbAutoUpdate, spos, Esite, rots, lastRun,
             jsonFile, savedValues, handler>>

\* ------------------------------------------------------------- exceptions
\* an exception propagates out of main(): the run ends, nothing else changes;
\* err keeps the exception and the line block that raised it
Raise(kind) ==
    /\ pc' = "error"
    /\ err' = [kind |-> kind, at |-> pc]
    /\ UNCHANGED <<args, params, files, loc, loaded, outputs, log>>

Goto(label) == pc' = label /\ err' = err

\* --------------------------------------------------------------- numerics
Frac(num, den) == [num |-> num, den |-> den]

\* variant: np.linspace(..., endpoint=False), step (stop-start)/num
LinspaceNoEndpoint(start, stop, num) ==
    [i \in 1..num |-> Frac(start * num + (i - 1) * (stop - start), num)]

\* np.linspace(start, stop, num)[i-1]: num points, both ends included;
\* a single point is start
Linspace(start, stop, num) ==
    [i \in 1..num |->
        IF num = 1 THEN Frac(start, 1)
        ELSE Frac(start * (num - 1) + (i - 1) * (stop - start), num - 1)]

\* variant: the offset 0.1 left out
DivisorNoEps(vref, z) == Frac(vref * z.num, z.den)

\* (Vref)*(zpos[i]+0.1), lines 146 and 147
Divisor(vref, z) == Frac(vref * (z.num + Eps * z.den), z.den)

\* zpos of line 144
Zpos(lvec, nDim, z0) == Linspace(lvec.org - z0, lvec.top - z0, nDim)

\* variant: the loop body never runs
NormalizeSkipped(FF, vref, zpos) == FF

\* the loop of lines 145-147 on one field: slice i is divided by Divisor
Normalize(FF, vref, zpos) ==
    [FF EXCEPT !.div = [i \in 1..FF.nDim |-> Divisor(vref, zpos[i])]]

\* PPH.computeElFF(V, lvec, nDim, tip, sigma=...): the force field of the
\* cross-correlation of V with the tip kernel; div holds the per-slice
\* divisors applied to it afterwards (none yet)
ComputeElFF(V, lvec, nDim, tip, sigma) ==
    [V |-> V, lvec |-> lvec, nDim |-> nDim, tip |-> tip, sigma |-> sigma,
     div |-> <<>>]

\* io.save_vec_field / io.save_scal_field(name, field, lvec, head=head)
Saved(name, field, lvec, head) ==
    [name |-> name, field |-> field, lvec |-> lvec, head |-> head]

\* ------------------------------------------------------------------- Init
Tokens == {Path("Fit", ""), Path("fit", ""), Path("dipole", ""), Path("pz", "")}
KpfmTips == Tokens \cup {Path("tipV", ".xsf"), Path("tipV", ".cube"), Path("FIT", "")}
ProbeTypes == {"8", "47", "54", "O"}

ArgsRec(dd, rc, td, inp, ks, kt, vr, z, en) ==
    [doDensity |-> dd, RcorePos |-> rc, tip_dens |-> td, input |-> inp,
     KPFM_sample |-> ks, KPFM_tip |-> kt, Vref |-> vr, z0 |-> z, energy |-> en]

\* every combination of options, on grids of the default geometry; the
\* KPFM-only options keep their defaults when --KPFM_sample is not given
ArgsFlow ==
    { ArgsRec(dd, rc, td, inp, ks, kt, vr, 0, en) :
        dd \in BOOLEAN, rc \in BOOLEAN,
        td \in {NoPath, Path("tip", ".xsf")},
        inp \in {Path("in", ".xsf"), Path("in", ".cube"), Path("in", ".dat")},
        ks \in {Path("bias", ".XSF"), Path("bias", ".cube"), Path("bias", ".dat")},
        kt \in KpfmTips, vr \in {None, Some(1)}, en \in BOOLEAN }
    \cup
    { ArgsRec(dd, rc, td, inp, NoPath, Path("Fit", ""), None, 0, en) :
        dd \in BOOLEAN, rc \in BOOLEAN,
        td \in {NoPath, Path("tip", ".xsf")},
        inp \in {Path("in", ".xsf"), Path("in", ".cube"), Path("in", ".dat")},
        en \in BOOLEAN }

\* the KPFM runs with every reference field, reference height and geometry
ArgsNorm ==
    { ArgsRec(TRUE, TRUE, Path("tip", ".xsf"), Path("in", ".xsf"),
              Path("bias", ".XSF"), kt, vr, z, FALSE) :
        kt \in {Path("Fit", ""), Path("tipV", ".xsf")},
        vr \in {None} \cup {Some(v) : v \in (-MaxVref)..MaxVref},
        z \in (-MaxZ0)..MaxZ0 }

InitLoc ==
    [bSubstractCore |-> FALSE,
     lvec_samp |-> NoLattice, nDim_samp |-> 0, head_samp |-> "unbound",
     V |-> None, lvec |-> NoLattice, nDim |-> 0, head |-> "unbound",
     rho_tip |-> None, lvec_tip |-> NoLattice, head_tip |-> "unbound",
     V_v0_aux |-> None, V_v0_aux2 |-> None, V_kpfm |-> None,
     Vref_s |-> None, Vref_t |-> None, sigma |-> "unbound",
     dV_kpfm |-> None, drho_kpfm |-> Unbound, tip_aux_2 |-> Unbound,
     FFkpfm_t0sV |-> None, FFkpfm_tVs0 |-> None, FFel |-> None, Eel |-> None]

InitCommon ==
    /\ pc = "L51"
    /\ err = [kind |-> "none", at |-> "none"]
    /\ loc = InitLoc
    /\ loaded = <<>>
    /\ outputs = <<>>
    /\ log = <<>>

\* the GUI is not running while main() runs
GuiNotStarted ==
    /\ param_widgets = <<>>
    /\ cbAutoUpdate = FALSE
    /\ spos = <<>> /\ Esite = <<>> /\ rots = <<>>
    /\ lastRun = <<>>
    /\ jsonFile = None
    /\ savedValues = None
    /\ handler = [name |-> "none", runs |-> 0]

Init ==
    /\ InitCommon
    /\ GuiNotStarted
    /\ \/ /\ args \in ArgsFlow
          /\ params \in [probeType : ProbeTypes, sigma : {"params"},
                         tip : {Multipole("params")}]
          /\ IF args.KPFM_sample = NoPath THEN params.probeType = "O" ELSE TRUE
          /\ files = [input |-> DefaultGeom, KPFM_sample |-> DefaultGeom]
       \/ /\ args \in ArgsNorm
          /\ params = [probeType |-> "8", sigma |-> "params",
                       tip |-> Multipole("params")]
          /\ files \in [input : {DefaultGeom}, KPFM_sample : Geoms]

\* ---------------------------------------------------------------- actions
\* line 51
SubstractCoreRequested(a) ==
    a.doDensity /\ a.RcorePos /\ a.tip_dens # NoPath

\* lines 51-55: decide on core subtraction; when it is on, read the atoms of
\* the tip density file (PPH.getAtomsWhichTouchPBCcell)
CheckCore ==
    /\ pc = "L51"
    /\ LET b == SubstractCoreRequested(args) IN
       IF b /\ args.tip_dens = NoPath
       THEN Raise("Exception: Rcore>0 but no tip density provided")
       ELSE \E ok \in (IF b THEN BOOLEAN ELSE {TRUE}) :
            IF ~ok THEN Raise("IOError")
            ELSE /\ loc' = [loc EXCEPT !.bSubstractCore = b]
                 /\ loaded' = IF b THEN Append(loaded, "atoms(tip_dens)") ELSE loaded
                 /\ Goto("L57")
                 /\ UNCHANGED <<args, params, files, outputs, log>>

\* lines 57-58: io.loadGeometry(args.input), io.primcoords2Xsf
LoadGeometry ==
    /\ pc = "L57"
    /\ \E ok \in BOOLEAN :
       IF ~ok THEN Raise("IOError")
       ELSE /\ loc' = [loc EXCEPT
                    !.lvec_samp = Lattice("input", files.input.org, files.input.top,
                                          files.input.n),
                    !.nDim_samp = files.input.n,
                    !.head_samp = "primcoords2Xsf(input)"]
            /\ loaded' = Append(loaded, "geometry(input)")
            /\ Goto("L60")
            /\ UNCHANGED <<args, params, files, outputs, log>>

\* lines 60-69: load the sample potential by extension, then V *= -1
LoadPotential ==
    /\ pc = "L60"
    /\ IF EndsWith(args.input, ".xsf") \/ EndsWith(args.input, ".cube")
       THEN \E ok \in BOOLEAN :
            IF ~ok THEN Raise("IOError")
            ELSE /\ loc' = [loc EXCEPT
                         !.V = Some(Neg(File0)),
                         !.lvec = Lattice("input", files.input.org, files.input.top,
                                          files.input.n),
                         !.nDim = files.input.n,
                         !.head = "header(input)"]
                 /\ loaded' = Append(loaded, "grid(input)")
                 /\ log' = log \o <<"load V", "negate V">>
                 /\ Goto("L78")
                 /\ UNCHANGED <<args, params, files, outputs>>
       ELSE Raise("TypeError: None *= -1")

\* lines 78-81: io.loadXSF(args.tip_dens).  (Lines 71-76, a tip given as
\* tip.py, put another multipole descriptor in PPU.params['tip']; the model
\* keeps the descriptor of the configuration.)
LoadTipDensity ==
    /\ pc = "L78"
    /\ IF args.tip_dens # NoPath
       THEN \E ok \in BOOLEAN :
            IF ~ok THEN Raise("IOError")
            ELSE /\ loc' = [loc EXCEPT
                         !.rho_tip = Some(File0),
                         !.lvec_tip = Lattice("tip_dens", 0, 0, 0),
                         !.head_tip = "header(tip_dens)"]
                 /\ loaded' = Append(loaded, "grid(tip_dens)")
                 /\ log' = Append(log, "load rho_tip")
                 /\ Goto(IF loc.bSubstractCore THEN "L83" ELSE "L87")
                 /\ UNCHANGED <<args, params, files, outputs>>
       ELSE /\ Goto("L89")
            /\ UNCHANGED <<args, params, files, loc, loaded, outputs, log>>

\* lines 83-85: PPH.subtractCoreDensities(rho_tip, ...), in place
SubtractCore ==
    /\ pc = "L83"
    /\ \E ok \in BOOLEAN :
       IF ~ok THEN Raise("MissingValenceData")
       ELSE /\ loc' = [loc EXCEPT !.rho_tip = Some(SubtractCoreDensities(Val(loc.rho_tip)))]
            /\ log' = Append(log, "subtract core")
            /\ Goto("L87")
            /\ UNCHANGED <<args, params, files, loaded, outputs>>

\* line 87: PPU.params['tip'] = -rho_tip
StoreKernel ==
    /\ pc = "L87"
    /\ params' = [params EXCEPT !.tip = GridTip(Neg(Val(loc.rho_tip)))]
    /\ log' = Append(log, "negate and store kernel")
    /\ Goto("L89")
    /\ UNCHANGED <<args, files, loc, loaded, outputs>>

\* args.Vref as lines 97, 103, 112 and 117 read it: None when --Vref is absent
\* variant: --Vref with a default value
RefFieldDefaulted(a) == IF IsNone(a.Vref) THEN Some(1) ELSE a.Vref
RefField(a) == a.Vref

\* lines 89-108: copy V, load the sample potential under bias, dV_kpfm
KPFMLoadSample ==
    /\ pc = "L89"
    /\ IF args.KPFM_sample = NoPath
       THEN /\ Goto("L153")
            /\ UNCHANGED <<args, params, files, loc, loaded, outputs, log>>
       ELSE IF EndsWith(args.KPFM_sample, ".xsf") \/ EndsWith(args.KPFM_sample, ".cube")
       THEN \E ok \in BOOLEAN :
            IF ~ok THEN Raise("IOError")
            ELSE /\ loc' = [loc EXCEPT
                         !.V_v0_aux = loc.V,
                         !.V_v0_aux2 = loc.V,
                         !.sigma = params.sigma,
                         !.Vref_s = RefField(args),
                         !.V_kpfm = Some(FileB),
                         !.lvec = Lattice("KPFM_sample", files.KPFM_sample.org,
                                          files.KPFM_sample.top, files.KPFM_sample.n),
                         !.nDim = files.KPFM_sample.n,
                         !.head = "header(KPFM_sample)",
                         !.dV_kpfm = Some(Sub(FileB, Val(loc.V)))]
                 /\ loaded' = Append(loaded, "grid(KPFM_sample)")
                 /\ log' = Append(log, "load V_kpfm")
                 /\ Goto("L110")
                 /\ UNCHANGED <<args, params, files, outputs>>
       ELSE Raise("TypeError: None - ndarray")

\* lines 123-134: the fitted polarisation of the analytic tip models
FitTable(probeType, drho, sigma) ==
    CASE probeType = "8"  -> [drho |-> Multipole("-0.045"),   sigma |-> "0.48"]
      [] probeType = "47" -> [drho |-> Multipole("-0.21875"), sigma |-> "0.7"]
      [] probeType = "54" -> [drho |-> Multipole("-0.250"),   sigma |-> "0.67"]
      [] OTHER            -> [drho |-> drho, sigma |-> sigma]

\* lines 110-134: the tip response under bias, by the token --KPFM_tip
KPFMTip ==
    /\ pc = "L110"
    /\ IF EndsWith(args.KPFM_tip, ".xsf")
       THEN IF IsNone(loc.rho_tip) THEN Raise("NameError: rho_tip")
            ELSE \E ok \in BOOLEAN :
                 IF ~ok THEN Raise("IOError")
                 ELSE /\ loc' = [loc EXCEPT
                              !.Vref_t = RefField(args),
                              !.lvec_tip = Lattice("KPFM_tip", 0, 0, 0),
                              !.head_tip = "header(KPFM_tip)",
                              !.drho_kpfm = GridTip(Sub(FileB, Val(loc.rho_tip)))]
                      /\ loaded' = Append(loaded, "grid(KPFM_tip)")
                      /\ Goto("L136")
                      /\ UNCHANGED <<args, params, files, outputs, log>>
       ELSE IF EndsWith(args.KPFM_tip, ".cube")
       THEN IF IsNone(loc.rho_tip) THEN Raise("NameError: rho_tip")
            ELSE Raise("AttributeError: args.borh")
       ELSE IF args.KPFM_tip \in Tokens
       THEN LET fit == FitTable(params.probeType, loc.drho_kpfm, loc.sigma) IN
            /\ loc' = [loc EXCEPT !.Vref_t = Some(VrefFit),
                                  !.drho_kpfm = fit.drho,
                                  !.sigma = fit.sigma]
            /\ Goto("L136")
            /\ UNCHANGED <<args, params, files, loaded, outputs, log>>
       ELSE /\ Goto("L136")
            /\ UNCHANGED <<args, params, files, loc, loaded, outputs, log>>

\* lines 136-140: the first KPFM convolution, dV_kpfm with the tip at zero bias
KPFMConv1 ==
    /\ pc = "L136"
    /\ \E ok \in BOOLEAN :
       IF ~ok THEN Raise("ShapeMismatch")
       ELSE /\ loc' = [loc EXCEPT
                    !.tip_aux_2 = params.tip,
                    !.FFkpfm_t0sV = Some(ComputeElFF(Val(loc.dV_kpfm), loc.lvec, loc.nDim,
                                                     params.tip, "default"))]
            /\ log' = Append(log, "convolve t0sV")
            /\ Goto("L141")
            /\ UNCHANGED <<args, params, files, loaded, outputs>>

\* line 141: the second KPFM convolution, V at zero bias with drho_kpfm
KPFMConv2 ==
    /\ pc = "L141"
    /\ IF loc.drho_kpfm = Unbound THEN Raise("NameError: drho_kpfm")
       ELSE \E ok \in BOOLEAN :
            IF ~ok THEN Raise("ShapeMismatch")
            ELSE /\ loc' = [loc EXCEPT
                         !.FFkpfm_tVs0 = Some(ComputeElFF(Val(loc.V_v0_aux2), loc.lvec,
                                                          loc.nDim, loc.drho_kpfm, loc.sigma))]
                 /\ log' = Append(log, "convolve tVs0")
                 /\ Goto("L143")
                 /\ UNCHANGED <<args, params, files, loaded, outputs>>

\* lines 146-147 raise TypeError when a reference field is None (--Vref not
\* given) and the loop body runs at all
NormalizeFails(vref_s, vref_t, nDim) ==
    nDim >= 1 /\ (IsNone(vref_s) \/ IsNone(vref_t))

\* lines 143-147: "Linear E to V"; numpy divides by zero without raising
KPFMNormalize ==
    /\ pc = "L143"
    /\ IF NormalizeFails(loc.Vref_s, loc.Vref_t, loc.nDim)
       THEN Raise("TypeError: None * float")
       ELSE LET zpos == Zpos(loc.lvec, loc.nDim, args.z0) IN
            /\ loc' = [loc EXCEPT
                    !.FFkpfm_t0sV = Some(Normalize(Val(loc.FFkpfm_t0sV), Val(loc.Vref_s), zpos)),
                    !.FFkpfm_tVs0 = Some(Normalize(Val(loc.FFkpfm_tVs0), Val(loc.Vref_t), zpos))]
            /\ log' = Append(log, "normalize")
            /\ Goto("L150")
            /\ UNCHANGED <<args, params, files, loaded, outputs>>

\* variant: the saves given lvec, which the KPFM sample load overwrites
OutLvecOfLastLoad(l) == l.lvec

\* the lattice and the header every io.save_* call of main() is given
OutLvec(l) == l.lvec_samp
OutHead(l) == l.head_samp

\* lines 149-150
SaveKPFM_t0sV ==
    /\ pc = "L150"
    /\ \E ok \in BOOLEAN :
       IF ~ok THEN Raise("IOError")
       ELSE /\ outputs' = Append(outputs, Saved("FFkpfm_t0sV", Val(loc.FFkpfm_t0sV),
                                                OutLvec(loc), OutHead(loc)))
            /\ log' = Append(log, "save FFkpfm_t0sV")
            /\ Goto("L151")
            /\ UNCHANGED <<args, params, files, loc, loaded>>

\* line 151
SaveKPFM_tVs0 ==
    /\ pc = "L151"
    /\ \E ok \in BOOLEAN :
       IF ~ok THEN Raise("IOError")
       ELSE /\ outputs' = Append(outputs, Saved("FFkpfm_tVs0", Val(loc.FFkpfm_tVs0),
                                                OutLvec(loc), OutHead(loc)))
            /\ log' = Append(log, "save FFkpfm_tVs0")
            /\ Goto("L153")
            /\ UNCHANGED <<args, params, files, loc, loaded>>

\* lines 153-154: the main convolution
MainConv ==
    /\ pc = "L153"
    /\ \E ok \in BOOLEAN :
       IF ~ok THEN Raise("ShapeMismatch")
       ELSE LET ff == ComputeElFF(Val(loc.V), loc.lvec, loc.nDim, params.tip, "default") IN
            /\ loc' = [loc EXCEPT !.FFel = Some(ff),
                                  !.Eel = IF args.energy THEN Some(ff) ELSE None]
            /\ log' = Append(log, "convolve main")
            /\ Goto("L158")
            /\ UNCHANGED <<args, params, files, loaded, outputs>>

\* lines 156-158
SaveFFel ==
    /\ pc = "L158"
    /\ \E ok \in BOOLEAN :
       IF ~ok THEN Raise("IOError")
       ELSE /\ outputs' = Append(outputs, Saved("FFel", Val(loc.FFel),
                                                OutLvec(loc), OutHead(loc)))
            /\ log' = Append(log, "save FFel")
            /\ Goto("L159")
            /\ UNCHANGED <<args, params, files, loc, loaded>>

\* whether line 160 runs
EnergyRequested(a) == a.energy

\* lines 159-161
SaveEel ==
    /\ pc = "L159"
    /\ IF EnergyRequested(args)
       THEN \E ok \in BOOLEAN :
            IF ~ok THEN Raise("IOError")
            ELSE /\ outputs' = Append(outputs, Saved("Eel", Val(loc.Eel),
                                                     OutLvec(loc), OutHead(loc)))
                 /\ log' = Append(log, "save Eel")
                 /\ Goto("done")
                 /\ UNCHANGED <<args, params, files, loc, loaded>>
       ELSE /\ Goto("done")
            /\ UNCHANGED <<args, params, files, loc, loaded, outputs, log>>

Next ==
    \/ CheckCore /\ UNCHANGED guiVars
    \/ LoadGeometry /\ UNCHANGED guiVars
    \/ LoadPotential /\ UNCHANGED guiVars
    \/ LoadTipDensity /\ UNCHANGED guiVars
    \/ SubtractCore /\ UNCHANGED guiVars
    \/ StoreKernel /\ UNCHANGED guiVars
    \/ KPFMLoadSample /\ UNCHANGED guiVars
    \/ KPFMTip /\ UNCHANGED guiVars
    \/ KPFMConv1 /\ UNCHANGED guiVars
    \/ KPFMConv2 /\ UNCHANGED guiVars
    \/ KPFMNormalize /\ UNCHANGED guiVars
    \/ SaveKPFM_t0sV /\ UNCHANGED guiVars
    \/ SaveKPFM_tVs0 /\ UNCHANGED guiVars
    \/ MainConv /\ UNCHANGED guiVars
    \/ SaveFFel /\ UNCHANGED guiVars
    \/ SaveEel /\ UNCHANGED guiVars

Spec == Init /\ [][Next]_<<vars, guiVars>>

\* =========================================================== charge-rings GUI
MaxSite == 3   \* the user enters nsite from 0..MaxSite (and 11, above the range)

\* python numbers: an int, or a float counted in thousandths
PyInt(v)   == [t |-> "int", v |-> v]
PyFloat(v) == [t |-> "float", v |-> v]

\* self.param_specs, lines 28-59, for three of its parameters
ParamSpecs ==
    [z_tip |-> [widget |-> "double", lo |-> 1000, hi |-> 20000, value |-> PyFloat(6000)],
     nsite |-> [widget |-> "int", lo |-> 1, hi |-> 10, value |-> PyInt(3)],
     Esite |-> [widget |-> "double", lo |-> -10000, hi |-> 10000, value |-> PyFloat(-1000)]]

ParamNames == DOMAIN ParamSpecs

\* QDoubleSpinBox keeps two decimals (setDecimals is not called for these
\* parameters): round half away from zero to a multiple of 0.01
RoundDecimals(v) ==
    IF v >= 0 THEN ((v + 5) \div 10) * 10 ELSE -((((-v) + 5) \div 10) * 10)

Clamp(v, lo, hi) == IF v < lo THEN lo ELSE IF v > hi THEN hi ELSE v

\* QSpinBox.setValue accepts an int only
SetValueRaises(name, x) == ParamSpecs[name].widget = "int" /\ x.t # "int"

\* the value the widget holds after widget.setValue(x), lines 98, 105, 143
SetValue(name, x) ==
    LET sp == ParamSpecs[name] IN
    IF sp.widget = "int" THEN PyInt(Clamp(x.v, sp.lo, sp.hi))
    ELSE LET f == IF x.t = "int" THEN x.v * 1000 ELSE x.v IN
         PyFloat(Clamp(RoundDecimals(f), sp.lo, sp.hi))

\* variant: json.dump of floats formatted with one decimal
JsonDumpOneDecimal(values) ==
    [n \in DOMAIN values |->
        IF values[n].t = "int" THEN [lit |-> "integer", v |-> values[n].v]
        ELSE [lit |-> "decimal", v |-> (values[n].v \div 100) * 100]]

\* json.dump (line 152): an int is written as an integer literal, a float as
\* the decimal literal that reads back as the same float
JsonDump(values) ==
    [n \in DOMAIN values |->
        [lit |-> IF values[n].t = "int" THEN "integer" ELSE "decimal",
         v |-> values[n].v]]

\* json.load (line 159)
JsonLoad(text) ==
    [n \in DOMAIN text |->
        IF text[n].lit = "integer" THEN PyInt(text[n].v) ELSE PyFloat(text[n].v)]

\* get_param_values, lines 135-137
GetParamValues == [n \in ParamNames |-> param_widgets[n]]

\* set_param_values, lines 139-143: the widget values afterwards
SetParamValues(widgets, values) ==
    [n \in ParamNames |->
        IF n \in DOMAIN values THEN SetValue(n, values[n]) ELSE widgets[n]]

\* the widgets whose valueChanged fires during set_param_values: setValue
\* emits it only when the value changes
ChangedBy(widgets, values) ==
    {n \in ParamNames \cap DOMAIN values : SetValue(n, values[n]) # widgets[n]}

\* TipMultipole.makeCircle(n, R): n site positions on a circle and their
\* angles (the module is not among the sources; taken from its call, line 169)
MakeCircle(n) ==
    [spos |-> [k \in 1..n |-> [site |-> k, z |-> 0]],
     phis |-> [k \in 1..n |-> k]]

\* TipMultipole.makeRotMats(phis): one rotation per angle (call at line 174)
MakeRotMats(phis) == [k \in DOMAIN phis |-> [phi |-> phis[k]]]

\* init_simulation at the head of run_simulation, lines 163-179 and 300-301
SimFrom(values) ==
    LET nsite == values["nsite"].v
        circle == MakeCircle(nsite) IN
    [spos  |-> [k \in DOMAIN circle.spos |->
                   [circle.spos[k] EXCEPT !.z = values["z_tip"].v]],
     Esite |-> [k \in 1..nsite |-> values["Esite"].v],
     rots  |-> MakeRotMats(circle.phis)]

\* run_simulation (lines 298-327) completing on the widget values w
RunSimulation(w) ==
    /\ spos' = SimFrom(w).spos
    /\ Esite' = SimFrom(w).Esite
    /\ rots' = SimFrom(w).rots
    /\ lastRun' = w

\* whether a valueChanged signal reaches run_simulation, line 109: the
\* connection is unconditional
ValueChangedRuns(autoUpdate) == TRUE

Handled(name, runs) == handler' = [name |-> name, runs |-> runs]

UserInputs(name) ==
    CASE name = "nsite" -> {PyInt(v) : v \in 0..MaxSite} \cup {PyInt(11)}
      [] name = "Esite" -> {PyFloat(-1000), PyFloat(126)}
      [] name = "z_tip" -> {PyFloat(6000), PyFloat(500)}

\* __init__ and create_gui, lines 17-132: widgets at their spec values,
\* Auto-update checked, init_simulation and one run_simulation
Defaults == [n \in ParamNames |-> SetValue(n, ParamSpecs[n].value)]

MainNotStarted ==
    /\ args = ArgsRec(FALSE, FALSE, NoPath, NoPath, NoPath, NoPath, None, 0, FALSE)
    /\ params = [probeType |-> "O", sigma |-> "params", tip |-> Multipole("params")]
    /\ files = [input |-> DefaultGeom, KPFM_sample |-> DefaultGeom]
    /\ pc = "not started"
    /\ err = [kind |-> "none", at |-> "none"]
    /\ loc = InitLoc
    /\ loaded = <<>> /\ outputs = <<>> /\ log = <<>>

InitGUI ==
    /\ MainNotStarted
    /\ param_widgets = Defaults
    /\ cbAutoUpdate = TRUE
    /\ spos = SimFrom(Defaults).spos
    /\ Esite = SimFrom(Defaults).Esite
    /\ rots = SimFrom(Defaults).rots
    /\ lastRun = Defaults
    /\ jsonFile = None
    /\ savedValues = None
    /\ handler = [name |-> "create_gui", runs |-> 1]

\* the user changes the value of a parameter widget: valueChanged, line 109
ValueChanged ==
    \E name \in ParamNames : \E x \in UserInputs(name) :
        LET new == SetValue(name, x)
            w == [param_widgets EXCEPT ![name] = new] IN
        /\ new # param_widgets[name]
        /\ param_widgets' = w
        /\ IF ValueChangedRuns(cbAutoUpdate)
           THEN RunSimulation(w) /\ Handled("valueChanged", 1)
           ELSE UNCHANGED <<spos, Esite, rots, lastRun>> /\ Handled("valueChanged", 0)
        /\ UNCHANGED <<cbAutoUpdate, jsonFile, savedValues>>

\* the user toggles the Auto-update checkbox, line 117: no slot is connected
ToggleAutoUpdate ==
    /\ cbAutoUpdate' = ~cbAutoUpdate
    /\ Handled("toggled", 0)
    /\ UNCHANGED <<param_widgets, spos, Esite, rots, lastRun, jsonFile, savedValues>>

\* the Run Simulation button, line 120
ClickRun ==
    /\ RunSimulation(param_widgets)
    /\ Handled("clicked", 1)
    /\ UNCHANGED <<param_widgets, cbAutoUpdate, jsonFile, savedValues>>

\* save_parameters, lines 145-152; the file dialog may be cancelled
SaveParameters ==
    \E chosen \in BOOLEAN :
        /\ jsonFile' = IF chosen THEN Some(JsonDump(GetParamValues)) ELSE jsonFile
        /\ savedValues' = IF chosen THEN Some(GetParamValues) ELSE savedValues
        /\ Handled("save_parameters", 0)
        /\ UNCHANGED <<param_widgets, cbAutoUpdate, spos, Esite, rots, lastRun>>

\* load_parameters with a file chosen, lines 156-161: every setValue that
\* changes a value runs the simulation, and line 161 runs it once more
LoadChosen ==
    /\ ~IsNone(jsonFile)
    /\ LET values == JsonLoad(Val(jsonFile))
           w == SetParamValues(param_widgets, values) IN
       IF \E n \in ParamNames \cap DOMAIN values : SetValueRaises(n, values[n])
       THEN /\ Handled("load_parameters: TypeError", 0)
            /\ UNCHANGED <<param_widgets, spos, Esite, rots, lastRun>>
       ELSE /\ param_widgets' = w
            /\ RunSimulation(w)
            /\ Handled("load_parameters",
                       Cardinality(ChangedBy(param_widgets, values)) + 1)
    /\ UNCHANGED <<cbAutoUpdate, jsonFile, savedValues>>

\* load_parameters, lines 154-161; the file dialog may be cancelled
LoadParameters ==
    \/ LoadChosen
    \/ /\ Handled("load_parameters", 0)
       /\ UNCHANGED <<param_widgets, cbAutoUpdate, spos, Esite, rots, lastRun,
                      jsonFile, savedValues>>

\* the file on disk is not the GUI's alone: an entry may be missing from it
\* or an entry of another name be in it (line 142 tests for both)
EditFile ==
    /\ ~IsNone(jsonFile)
    /\ LET f == Val(jsonFile) IN
       \/ \E n \in DOMAIN f :
             jsonFile' = Some([m \in (DOMAIN f) \ {n} |-> f[m]])
       \/ /\ "comment" \notin DOMAIN f
          /\ jsonFile' = Some([m \in (DOMAIN f) \cup {"comment"} |->
                                 IF m = "comment" THEN [lit |-> "decimal", v |-> 0]
                                 ELSE f[m]])
    /\ UNCHANGED <<param_widgets, cbAutoUpdate, spos, Esite, rots, lastRun,
                   savedValues, handler>>

NextGUI ==
    \/ ValueChanged /\ UNCHANGED vars
    \/ ToggleAutoUpdate /\ UNCHANGED vars
    \/ ClickRun /\ UNCHANGED vars
    \/ SaveParameters /\ UNCHANGED vars
    \/ LoadParameters /\ UNCHANGED vars
    \/ EditFile /\ UNCHANGED vars

SpecGUI == InitGUI /\ [][NextGUI]_<<vars, guiVars>>

\* ================================================================= claims
FracEq(x, y) == x.num * y.den = y.num * x.den

KpfmNames == {"FFkpfm_t0sV", "FFkpfm_tVs0"}
Bound(o) == ~IsNone(o)
Normalized(o) == Bound(o) /\ DOMAIN Val(o).div # {}
IsKpfmRun == args.KPFM_sample # NoPath
Written(name) == {k \in 1..Len(outputs) : outputs[k].name = name}

\* the line blocks that run once the tip kernel is in PPU.params['tip']
AfterKernel == {"L89", "L110", "L136", "L141", "L143", "L150", "L151",
                "L153", "L158", "L159"}

\* ---- C1
\* C1 (as claimed): every potential handed to a convolution is the file's
\* contents negated once: V of the main convolution and the zero-bias
\* potential of the second KPFM convolution are -Vfile_0, and deltaV of the
\* first KPFM convolution is -(Vfile_bias - Vfile_0).
C1_PotentialsNegatedOnce ==
    /\ Bound(loc.FFel) => Val(loc.FFel).V = Neg(File0)
    /\ Bound(loc.FFkpfm_tVs0) => Val(loc.FFkpfm_tVs0).V = Neg(File0)
    /\ Bound(loc.FFkpfm_t0sV) => Val(loc.FFkpfm_t0sV).V = Neg(Sub(FileB, File0))

\* ---- C2
\* height of slice i above z0 as line 144 gives it, written out: the i-th of n
\* evenly spaced points from lvec[0,2]-z0 to lvec[3,2]-z0, both included
SliceZ(g, z0, i) ==
    IF g.n = 1 THEN Frac(g.org - z0, 1)
    ELSE Frac((g.n - 1) * (g.org - z0) + (i - 1) * (g.top - g.org), g.n - 1)

\* C2 (as claimed): slice i of both KPFM fields is divided by
\* Vref * (z_i - z0 + 0.1) with z_i = origin + i grid spacings, a grid
\* spacing being the cell height over the slice count.
C2_DividedByVrefAtGridHeight ==
    \A o \in {loc.FFkpfm_t0sV, loc.FFkpfm_tVs0} :
        Normalized(o) =>
            LET g == files.KPFM_sample IN
            \A i \in 1..g.n :
                FracEq(Val(o).div[i],
                       Frac(Val(args.Vref) * (g.n * (g.org - args.z0 + Eps) + (i - 1) * g.top),
                            g.n))

\* C2 (amended): slice i of FFkpfm_t0sV is divided by Vref_s * (zpos_i + 0.1)
\* and slice i of FFkpfm_tVs0 by Vref_t * (zpos_i + 0.1), where Vref_s is
\* --Vref, Vref_t is --Vref for a tip density file and -0.1 for the analytic
\* tokens, and zpos_i is the i-th of nDim[0] evenly spaced values from
\* lvec[0,2]-z0 to lvec[3,2]-z0 (both included) of the KPFM sample grid; for
\* a single slice zpos_0 = lvec[0,2]-z0.
C2_DividedByLinspaceHeight ==
    LET g == files.KPFM_sample
        expect(v, i) == LET z == SliceZ(g, args.z0, i) IN
                        Frac(v * (z.num + Eps * z.den), z.den)
        vt == IF args.KPFM_tip \in Tokens THEN VrefFit ELSE Val(args.Vref)
    IN
    /\ Normalized(loc.FFkpfm_t0sV) =>
          /\ DOMAIN Val(loc.FFkpfm_t0sV).div = 1..g.n
          /\ \A i \in 1..g.n :
                FracEq(Val(loc.FFkpfm_t0sV).div[i], expect(Val(args.Vref), i))
    /\ Normalized(loc.FFkpfm_tVs0) =>
          /\ DOMAIN Val(loc.FFkpfm_tVs0).div = 1..g.n
          /\ \A i \in 1..g.n :
                FracEq(Val(loc.FFkpfm_tVs0).div[i], expect(vt, i))

\* C2 witness: normalisation has run on a grid of several slices whose
\* origin is not zero, with an analytic tip
C2_Witness ==
    /\ pc = "L150"
    /\ Normalized(loc.FFkpfm_t0sV) /\ Normalized(loc.FFkpfm_tVs0)
    /\ loc.nDim >= 2 /\ loc.lvec.org # 0
    /\ args.KPFM_tip \in Tokens

\* ---- C3
\* C3 (as claimed): with --doDensity, Rcore > 0 and no --tip_dens, main()
\* fails before any file is loaded: it never gets past line 51.
C3_FailsBeforeLoading ==
    (args.doDensity /\ args.RcorePos /\ args.tip_dens = NoPath) =>
        /\ loaded = <<>>
        /\ pc \in {"L51", "error"}

\* ---- C4
\* C4: with --KPFM_sample given and --Vref absent, main() never completes
\* and never writes FFkpfm_t0sV or FFkpfm_tVs0.
C4_NoVrefNeverCompletes ==
    (IsKpfmRun /\ IsNone(args.Vref)) =>
        /\ pc # "done"
        /\ \A k \in 1..Len(outputs) : outputs[k].name \notin KpfmNames

\* C4 witness: such a run has reached the normalisation and died there
C4_Witness ==
    /\ IsKpfmRun /\ IsNone(args.Vref)
    /\ pc = "error" /\ err.at = "L143"
    /\ Bound(loc.FFkpfm_t0sV) /\ Bound(loc.FFkpfm_tVs0)

\* ---- C5
\* C5 (as claimed): when main() ends with an error raised after the tip
\* kernel was built, no output file has been written.
C5_NoPartialOutput ==
    (pc = "error" /\ err.at \in AfterKernel) => outputs = <<>>

\* ---- C6
CoreEnabled == args.doDensity /\ args.RcorePos /\ args.tip_dens # NoPath

KpfmOrder ==
    <<"load V", "negate V">>
    \o (IF args.tip_dens # NoPath
        THEN <<"load rho_tip">>
             \o (IF CoreEnabled THEN <<"subtract core">> ELSE <<>>)
             \o <<"negate and store kernel">>
        ELSE <<>>)
    \o <<"load V_kpfm", "convolve t0sV", "convolve tVs0", "normalize",
         "save FFkpfm_t0sV", "save FFkpfm_tVs0", "convolve main", "save FFel">>
    \o (IF args.energy THEN <<"save Eel">> ELSE <<>>)

\* C6: a KPFM run that completes has done exactly these steps in this order:
\* potential loaded and negated, kernel built (core subtracted before it is
\* negated and stored), the two KPFM convolutions, normalisation, the two
\* KPFM fields written, the main convolution, FFel written, Eel written last
\* if requested; and no KPFM field is ever written unnormalised.
C6_KpfmStepOrder ==
    /\ (pc = "done" /\ IsKpfmRun) => log = KpfmOrder
    /\ \A k \in 1..Len(outputs) :
          outputs[k].name \in KpfmNames => DOMAIN outputs[k].field.div # {}

\* C6 witness: a completed KPFM run with core subtraction and energy output
C6_Witness ==
    /\ pc = "done" /\ IsKpfmRun /\ CoreEnabled /\ args.energy
    /\ Len(outputs) = 4

\* ---- C7
\* C7 (as claimed): when the second KPFM convolution is about to be invoked
\* with --KPFM_tip one of 'Fit', 'fit', 'dipole', 'pz' or an .xsf/.cube path,
\* drho_kpfm, Vref_t and sigma are defined, whatever probeType and --tip_dens
\* are; for the analytic tokens they are the table entry of the probe type.
C7_TipResponseDefined ==
    (pc = "L141" /\ (args.KPFM_tip \in Tokens \/ EndsWith(args.KPFM_tip, ".xsf")
                       \/ EndsWith(args.KPFM_tip, ".cube"))) =>
        /\ loc.drho_kpfm # Unbound
        /\ Bound(loc.Vref_t)
        /\ loc.sigma # "unbound"
        /\ (args.KPFM_tip \in Tokens /\ params.probeType = "8") =>
              (loc.drho_kpfm = Multipole("-0.045") /\ loc.sigma = "0.48")
        /\ (args.KPFM_tip \in Tokens /\ params.probeType = "47") =>
              (loc.drho_kpfm = Multipole("-0.21875") /\ loc.sigma = "0.7")
        /\ (args.KPFM_tip \in Tokens /\ params.probeType = "54") =>
              (loc.drho_kpfm = Multipole("-0.250") /\ loc.sigma = "0.67")

\* ---- C8
\* C8: every file written carries the lattice and header derived from the
\* sample input file (lvec_samp, head_samp); Eel is written only after FFel;
\* a run that completes has written FFel exactly once, and Eel exactly once
\* if energy output was requested and not at all otherwise.
C8_OutputsTaggedWithSample ==
    /\ \A k \in 1..Len(outputs) :
          /\ outputs[k].lvec.src = "input"
          /\ outputs[k].lvec = Lattice("input", files.input.org, files.input.top,
                                       files.input.n)
          /\ outputs[k].head = "primcoords2Xsf(input)"
    /\ \A k \in Written("Eel") : \E j \in Written("FFel") : j < k
    /\ pc = "done" =>
          /\ Cardinality(Written("FFel")) = 1
          /\ Cardinality(Written("Eel")) = (IF args.energy THEN 1 ELSE 0)

\* C8 witness: a completed KPFM run with energy output, all four files
\* written, after lvec was replaced by the KPFM sample's lattice
C8_Witness ==
    /\ pc = "done" /\ IsKpfmRun /\ args.energy
    /\ Written("FFel") # {} /\ Written("Eel") # {}
    /\ Written("FFkpfm_t0sV") # {} /\ Written("FFkpfm_tVs0") # {}
    /\ loc.lvec.src = "KPFM_sample"

\* ---- C10
AppliedVref(name) == IF name = "FFkpfm_t0sV" THEN loc.Vref_s ELSE loc.Vref_t
KpfmField(name) == IF name = "FFkpfm_t0sV" THEN loc.FFkpfm_t0sV ELSE loc.FFkpfm_tVs0

\* C10 (as claimed): with a nonzero Vref the divisor Vref*(z_i - z0 + 0.1)
\* is nonzero for every slice, whatever z0 and the grid are.
C10_DivisorNeverZero ==
    \A name \in KpfmNames :
        (Normalized(KpfmField(name)) /\ Val(AppliedVref(name)) # 0) =>
            \A i \in DOMAIN Val(KpfmField(name)).div :
                Val(KpfmField(name)).div[i].num # 0

\* C10 (amended): with a nonzero Vref the divisor is nonzero for every slice
\* except one lying exactly 0.1 Angstrom below z0 (zpos_i = -0.1); in
\* particular it is nonzero for every slice at or above z0.
C10_DivisorZeroOnlyBelowPlane ==
    \A name \in KpfmNames :
        (Normalized(KpfmField(name)) /\ Val(AppliedVref(name)) # 0) =>
            \A i \in DOMAIN Val(KpfmField(name)).div :
                LET z == SliceZ(files.KPFM_sample, args.z0, i) IN
                (z.num # (-Eps) * z.den) => Val(KpfmField(name)).div[i].num # 0

\* C10 witness: normalised with a nonzero Vref, one slice exactly at z0
C10_Witness ==
    /\ Normalized(loc.FFkpfm_t0sV) /\ Val(loc.Vref_s) # 0
    /\ \E i \in DOMAIN Val(loc.FFkpfm_t0sV).div :
          /\ SliceZ(files.KPFM_sample, args.z0, i).num = 0
          /\ Val(loc.FFkpfm_t0sV).div[i].num # 0

\* ---- C11
\* a loaded tip density after the core treatment of the run
CoreTreated(g) == IF loc.bSubstractCore THEN SubtractCoreDensities(g) ELSE g

\* C11 (as claimed): every tip density grid handed to a convolution as the
\* kernel is the file's contents core-treated as the run asks and negated:
\* the main kernel and the reference kernel of the first KPFM convolution
\* are -treated(rho_0), and deltaRho of the second KPFM convolution is
\* (-treated(rho_bias)) - (-treated(rho_0)).
C11_KernelsNegatedAndCoreTreated ==
    /\ (Bound(loc.FFel) /\ Val(loc.FFel).tip.kind = "grid") =>
          Val(loc.FFel).tip.g = Neg(CoreTreated(File0))
    /\ (Bound(loc.FFkpfm_t0sV) /\ Val(loc.FFkpfm_t0sV).tip.kind = "grid") =>
          Val(loc.FFkpfm_t0sV).tip.g = Neg(CoreTreated(File0))
    /\ (Bound(loc.FFkpfm_tVs0) /\ Val(loc.FFkpfm_tVs0).tip.kind = "grid") =>
          Val(loc.FFkpfm_tVs0).tip.g =
              Sub(Neg(CoreTreated(FileB)), Neg(CoreTreated(File0)))

\* ---- C12
\* the kernel a run without --KPFM_sample hands to the main convolution
KernelWithoutKpfm ==
    IF args.tip_dens # NoPath THEN GridTip(Neg(CoreTreated(File0)))
    ELSE Multipole("params")

\* C12 (as claimed): the main convolution receives the V, lvec, nDim and
\* kernel it receives in the run with the same inputs and no --KPFM_sample:
\* the negated input potential, the lattice and dimensions of the input
\* grid, and the kernel built by lines 78-87.
C12_MainInputsAsWithoutKpfm ==
    Bound(loc.FFel) =>
        /\ Val(loc.FFel).V = Neg(File0)
        /\ Val(loc.FFel).lvec.org = files.input.org
        /\ Val(loc.FFel).lvec.top = files.input.top
        /\ Val(loc.FFel).nDim = files.input.n
        /\ Val(loc.FFel).tip = KernelWithoutKpfm


\* ---- C13
\* C13: while the Auto-update checkbox is unchecked a handler that started
\* run_simulation is the Run Simulation button or load_parameters, never a
\* change of a parameter widget's value.
C13_NoRunOnChangeWhileUnchecked ==
    (~cbAutoUpdate /\ handler.runs > 0) =>
        handler.name \in {"clicked", "load_parameters"}

====
